---- MODULE Spec2Model ----
(***************************************************************************)
(* Backtester (AIBrokers/src/backtester.py): the collateral ledger kept in *)
(* self.portfolio, its two mutators sell_collateral and execute_trade, and *)
(* the per-date loop of run_backtest, with the price provider              *)
(* (tools/api.py) and the decision source (main.py run_hedge_fund) as      *)
(* nondeterministic inputs.                                                *)
(*                                                                         *)
(* Units.  Python floats are modelled as exact fixed-point integers:       *)
(*   money (cash, quantity, values)  in cents,                             *)
(*   collateral                      in hundredths of an asset unit,       *)
(*   prices                          in whole dollars.                     *)
(* So collateral * price (dollars) is  H * P  cents, and                   *)
(* round(quantity / price, 2) units is  Round2(Q, P)  hundredths.          *)
(* Binary floating-point representation error is not modelled.             *)
(***************************************************************************)
EXTENDS Integers, Sequences, FiniteSets, TLC

(***************************************************************************)
(* Bounds of the model.                                                    *)
(***************************************************************************)
\* last day number a run may end on (days are 1..MaxDay)
MaxDay == 3
\* most candles the price provider's response holds
MaxBars == 2
\* most direct calls of the ledger's methods in SpecLedger
MaxCalls == 3

\* highest close on the hold date of scenario 1 (SpecScenario)
MaxHoldPrice == 25

\* longest value history given to analyze_performance (SpecPerf)
MaxRecords == 4

\* highest portfolio value of those histories (SpecPerf)
MaxValue == 4

\* longest price series given to the risk agent, and the number of times it is
\* run on it (SpecRisk)
MaxSeries == 26
MaxRiskCalls == 2

\* rolling(window=24) of risk_management_agent
Window == 24

\* closes the provider can report (positive; 100/8 is a rounding tie,
\* 100/3 is inexact, 1/3 rounds to zero collateral)
Prices == {1, 3, 8}
\* numeric quantities a decision can carry, in cents
Quantities == {-100, 0, 1, 100, 1000}
\* --initial-capital, in cents
InitialCapitals == {1000}
\* --risk (percent) and --leverage
Risks == {5}
Leverages == {10}

(***************************************************************************)
(* Python values that reach the ledger untyped.                            *)
(***************************************************************************)
PyNone == [t |-> "None"]
PyStr(s) == [t |-> "str", s |-> s]
PyNum(n) == [t |-> "num", n |-> n]
PyDict(d) == [t |-> "dict", d |-> d]

\* dict.get(key): the value, or None when the key is absent
Get(o, key) == IF key \in DOMAIN o.d THEN o.d[key] ELSE PyNone

\* d[key] = value, adding the key when absent
SetItem(d, key, value) ==
    [k \in DOMAIN d \cup {key} |-> IF k = key THEN value ELSE d[k]]

ActionValues == {PyStr("long"), PyStr("short"), PyStr("hold"), PyStr("buy")}
QuantityValues == {PyNum(n) : n \in Quantities} \cup {PyStr("ten")}

\* what run_hedge_fund can hand back: the value under "decisions" (a dict with
\* any of the two keys, or None when the key is absent), the string
\* "Cant Run AI", or the default hold decision
AgentOutputs ==
    {PyNone, PyStr("Cant Run AI")}
    \cup {PyDict([action |-> a, quantity |-> q]) : a \in ActionValues, q \in QuantityValues}
    \cup {PyDict([action |-> a]) : a \in ActionValues}
    \cup {PyDict([quantity |-> q]) : q \in QuantityValues}

\* the provider's JSON response: a list of at most MaxBars candles (their closes)
Responses == UNION {[1..n -> Prices] : n \in 0..MaxBars}

ErrorSentinel == PyStr("Cannot find price of this crypto")

\* get_price_API_HYPERLIQUID: a frame of the candles, or the error string when
\* building the frame raises (an empty response has no "close" column)
get_price_API_HYPERLIQUID(response) ==
    IF Len(response) = 0 THEN ErrorSentinel ELSE [t |-> "frame", close |-> response]

(***************************************************************************)
(* Backtester: pure parts.                                                 *)
(***************************************************************************)
\* rounding that takes ties up instead of to even
Round2_Ceil(q, p) ==
    IF q % p = 0 THEN q \div p ELSE (q \div p) + 1

Round2_HalfUp(q, p) ==
    IF 2 * (q % p) < p THEN q \div p ELSE (q \div p) + 1

\* round(q / p, 2) for q > 0, p > 0, in hundredths: nearest, ties to even
\* (the ties the bounds produce, n/8, are exact in binary)
Round2(q, p) ==
    LET f == q \div p
        r == q % p
    IN  IF 2 * r < p THEN f
        ELSE IF 2 * r > p THEN f + 1
        ELSE IF f % 2 = 0 THEN f ELSE f + 1

\* Backtester.__init__: self.portfolio
InitPortfolio(initial_capital, risk, leverage) ==
    [cash |-> initial_capital,
     collateral_long |-> 0,
     collateral_short |-> 0,
     price_collateral |-> 0,
     risk |-> risk,
     leverage |-> leverage]

\* Backtester.parse_action: (action, quantity)
parse_action(agent_output) ==
    IF agent_output.t = "dict"
    THEN <<Get(agent_output, "action"), Get(agent_output, "quantity")>>
    ELSE <<PyStr("hold"), PyNum(0)>>

\* opening without the `cash >= quantity` test
OpenPosition_NoCashCheck(p, side, q, current_price) ==
    [p EXCEPT ![side] = @ + Round2(q, current_price),
              !.cash = @ - q,
              !.price_collateral = current_price]

\* the branch of execute_trade that opens a position on `side`
OpenPosition(p, side, q, current_price) ==
    IF p.cash >= q
    THEN [p EXCEPT ![side] = @ + Round2(q, current_price),
                   !.cash = @ - q,
                   !.price_collateral = current_price]
    ELSE p

\* Backtester.execute_trade: the ledger after the call and the value returned,
\* or raised = TRUE when `quantity > 0` is a TypeError (None or a string)
execute_trade(p, action, quantity, current_price) ==
    IF action \in {PyStr("long"), PyStr("short")} /\ quantity.t # "num"
    THEN [raised |-> TRUE, portfolio |-> p, ret |-> PyNone]
    ELSE IF action = PyStr("long") /\ quantity.n > 0
    THEN [raised |-> FALSE,
          portfolio |-> OpenPosition(p, "collateral_long", quantity.n, current_price),
          ret |-> quantity]
    ELSE IF action = PyStr("short") /\ quantity.n > 0
    THEN [raised |-> FALSE,
          portfolio |-> OpenPosition(p, "collateral_short", quantity.n, current_price),
          ret |-> quantity]
    ELSE [raised |-> FALSE, portfolio |-> p, ret |-> quantity]

\* sell_collateral with `elif` for the long branch and the short never zeroed
sell_collateral_KeepShort(p, current_price) ==
    IF p.collateral_short # 0
    THEN [p EXCEPT !.cash = @ + p.collateral_short
                                * (2 * p.price_collateral - current_price)]
    ELSE IF p.collateral_long # 0
    THEN [p EXCEPT !.cash = @ + p.collateral_long * current_price,
                   !.collateral_long = 0]
    ELSE p

\* sell_collateral that credits the long position and leaves it open
sell_collateral_KeepLong(p, current_price) ==
    LET p1 == IF p.collateral_short # 0
              THEN [p EXCEPT !.cash = @ + p.collateral_short
                                          * (2 * p.price_collateral - current_price),
                             !.collateral_short = 0]
              ELSE p
    IN  IF p1.collateral_long # 0
        THEN [p1 EXCEPT !.cash = @ + p1.collateral_long * current_price]
        ELSE p1

\* sell_collateral with the linear short payoff (entry - price) per unit
sell_collateral_LinearShort(p, current_price) ==
    LET p1 == IF p.collateral_short # 0
              THEN [p EXCEPT !.cash = @ + p.collateral_short
                                          * (p.price_collateral - current_price),
                             !.collateral_short = 0]
              ELSE p
    IN  IF p1.collateral_long # 0
        THEN [p1 EXCEPT !.cash = @ + p1.collateral_long * current_price,
                        !.collateral_long = 0]
        ELSE p1

\* Backtester.sell_collateral: the short branch, then the long branch
sell_collateral(p, current_price) ==
    LET p1 == IF p.collateral_short # 0
              THEN [p EXCEPT !.cash = @ + p.collateral_short
                                          * (2 * p.price_collateral - current_price),
                             !.collateral_short = 0]
              ELSE p
    IN  IF p1.collateral_long # 0
        THEN [p1 EXCEPT !.cash = @ + p1.collateral_long * current_price,
                        !.collateral_long = 0]
        ELSE p1

\* a valuation that forgets the open short
TotalValue_NoShort(p, current_price) ==
    IF p.collateral_long > 0
    THEN p.cash + p.collateral_long * current_price
    ELSE p.cash

\* run_backtest: total_value of the ledger at current_price
TotalValue(p, current_price) ==
    IF p.collateral_long > 0
    THEN p.cash + p.collateral_long * current_price
    ELSE IF p.collateral_short > 0
    THEN p.cash + p.collateral_short * (2 * p.price_collateral - current_price)
    ELSE p.cash

\* the log line's format specs: {action:<10} and {executed_quantity:>8} raise
\* TypeError on None
LogRaises(action, executed_quantity) ==
    action = PyNone \/ executed_quantity = PyNone

(***************************************************************************)
(* State.                                                                  *)
(***************************************************************************)
VARIABLES
    portfolio,          \* self.portfolio
    portfolio_values,   \* self.portfolio_values: records [Date, Value]
    initial_capital,    \* self.initial_capital
    start_date,         \* self.start_date (a day number)
    end_date,           \* self.end_date
    pc,                 \* position in run_backtest, or "api" between direct calls
    current_date,       \* the loop variable (0 before the first date)
    current_price,      \* locals of run_backtest (0 / None before assignment)
    agent_output,
    action,
    quantity,
    executed_quantity,
    total_value,
    error,              \* the exception that ended the run, "" when none
    calls,              \* history: direct calls made so far (SpecLedger, SpecRisk)
    prices_df,          \* state["data"]["prices"] of the risk agent (None when absent)
    message_content,    \* what risk_management_agent last emitted
    risk_hist,          \* history: the frame first given, and the output before
    performance,        \* what analyze_performance computed
    last                \* history: the last ledger call, the one before it, and
                        \* the ledger as it was before the last call

vars == <<portfolio, portfolio_values, initial_capital, start_date, end_date, pc,
          current_date, current_price, agent_output, action, quantity,
          executed_quantity, total_value, error, calls, prices_df, message_content,
          risk_hist, performance, last>>

aux == <<prices_df, message_content, risk_hist, performance>>
params == <<initial_capital, start_date, end_date, calls, aux>>
locals == <<current_price, agent_output, action, quantity, executed_quantity,
            total_value>>

\* nothing analysed yet
AuxInit ==
    /\ prices_df = PyNone
    /\ message_content = PyNone
    /\ risk_hist = PyNone
    /\ performance = PyNone

\* Backtester.__init__: everything but the arguments
FreshAt(start_pc) ==
    /\ portfolio_values = <<>>
    /\ pc = start_pc
    /\ current_date = 0
    /\ current_price = 0
    /\ agent_output = PyNone
    /\ action = PyNone
    /\ quantity = PyNone
    /\ executed_quantity = PyNone
    /\ total_value = 0
    /\ error = ""
    /\ calls = 0
    /\ last = [op |-> "none", prev_op |-> "none", pre |-> portfolio]

\* Backtester.__init__, then the start of run_backtest (or of direct calls)
InitAt(start_pc) ==
    /\ initial_capital \in InitialCapitals
    /\ \E risk \in Risks, leverage \in Leverages :
          portfolio = InitPortfolio(initial_capital, risk, leverage)
    /\ start_date \in 1..2
    /\ end_date \in 1..MaxDay
    /\ FreshAt(start_pc)
    /\ AuxInit

Init == InitAt("for")

\* a date range that leaves end_date out
dates_ExclusiveEnd ==
    [i \in 1..(IF end_date > start_date THEN end_date - start_date ELSE 0)
        |-> start_date + i - 1]

\* pd.date_range(start_date, end_date, freq="D"): both endpoints included
dates == [i \in 1..(IF end_date >= start_date THEN end_date - start_date + 1 ELSE 0)
            |-> start_date + i - 1]

\* the date after d in `dates`, 0 when d is the last (d = 0: the first)
NextDate(d) ==
    IF Len(dates) = 0 THEN 0
    ELSE IF d = 0 THEN dates[1]
    ELSE IF d < dates[Len(dates)] THEN d + 1
    ELSE 0

(***************************************************************************)
(* run_backtest, one action per statement of the loop body.                *)
(***************************************************************************)
\* for current_date in dates
ForDate ==
    /\ pc = "for"
    /\ IF NextDate(current_date) = 0
       THEN pc' = "done" /\ UNCHANGED current_date
       ELSE pc' = "fetch" /\ current_date' = NextDate(current_date)
    /\ UNCHANGED <<portfolio, portfolio_values, params, locals, error, last>>

\* a loop body that liquidates at the previous price before looking at the frame
FetchPrice_SellsFirst ==
    /\ pc = "fetch"
    /\ \E response \in Responses :
          LET df == get_price_API_HYPERLIQUID(response)
          IN  IF df.t = "frame"
              THEN /\ current_price' = df.close[Len(df.close)]
                   /\ pc' = "sell"
                   /\ UNCHANGED <<error, portfolio>>
              ELSE /\ error' = "AttributeError"
                   /\ pc' = "aborted"
                   /\ portfolio' = sell_collateral(portfolio, current_price)
                   /\ UNCHANGED current_price
    /\ UNCHANGED <<portfolio_values, params, current_date, agent_output,
                   action, quantity, executed_quantity, total_value, last>>

\* df = get_price_API_HYPERLIQUID(...); current_price = df.iloc[-1]["close"]
\* (the error string has no .iloc: AttributeError)
FetchPrice ==
    /\ pc = "fetch"
    /\ \E response \in Responses :
          LET df == get_price_API_HYPERLIQUID(response)
          IN  IF df.t = "frame"
              THEN /\ current_price' = df.close[Len(df.close)]
                   /\ pc' = "sell"
                   /\ UNCHANGED error
              ELSE /\ error' = "AttributeError"
                   /\ pc' = "aborted"
                   /\ UNCHANGED current_price
    /\ UNCHANGED <<portfolio, portfolio_values, params, current_date, agent_output,
                   action, quantity, executed_quantity, total_value, last>>

\* self.sell_collateral(current_price)
SellStep ==
    /\ pc = "sell"
    /\ portfolio' = sell_collateral(portfolio, current_price)
    /\ last' = [op |-> "sell", prev_op |-> last.op, pre |-> portfolio]
    /\ pc' = "agent"
    /\ UNCHANGED <<portfolio_values, params, current_date, locals, error>>

\* agent_output = self.agent(..., portfolio=self.portfolio)
AgentStep ==
    /\ pc = "agent"
    /\ agent_output' \in AgentOutputs
    /\ pc' = "parse"
    /\ UNCHANGED <<portfolio, portfolio_values, params, current_date, current_price,
                   action, quantity, executed_quantity, total_value, error, last>>

\* action, quantity = self.parse_action(agent_output)
ParseStep ==
    /\ pc = "parse"
    /\ action' = parse_action(agent_output)[1]
    /\ quantity' = parse_action(agent_output)[2]
    /\ pc' = "trade"
    /\ UNCHANGED <<portfolio, portfolio_values, params, current_date, current_price,
                   agent_output, executed_quantity, total_value, error, last>>

\* executed_quantity = self.execute_trade(action, quantity, current_price)
TradeStep ==
    /\ pc = "trade"
    /\ LET r == execute_trade(portfolio, action, quantity, current_price)
       IN  IF r.raised
           THEN /\ error' = "TypeError"
                /\ pc' = "aborted"
                /\ UNCHANGED <<portfolio, executed_quantity, last>>
           ELSE /\ portfolio' = r.portfolio
                /\ executed_quantity' = r.ret
                /\ last' = [op |-> "trade", prev_op |-> last.op, pre |-> portfolio]
                /\ pc' = "value"
                /\ UNCHANGED error
    /\ UNCHANGED <<portfolio_values, params, current_date, current_price,
                   agent_output, action, quantity, total_value>>

\* total_value = ...; self.portfolio["portfolio_value"] = total_value
ValueStep ==
    /\ pc = "value"
    /\ total_value' = TotalValue(portfolio, current_price)
    /\ portfolio' = SetItem(portfolio, "portfolio_value",
                            TotalValue(portfolio, current_price))
    /\ pc' = "log"
    /\ UNCHANGED <<portfolio_values, params, current_date, current_price,
                   agent_output, action, quantity, executed_quantity, error, last>>

\* print(f"... {action:<10} {executed_quantity:>8} ...")
LogStep ==
    /\ pc = "log"
    /\ IF LogRaises(action, executed_quantity)
       THEN error' = "TypeError" /\ pc' = "aborted"
       ELSE pc' = "append" /\ UNCHANGED error
    /\ UNCHANGED <<portfolio, portfolio_values, params, current_date, locals, last>>

\* self.portfolio_values.append({"Date": current_date, "Portfolio Value": total_value})
AppendStep ==
    /\ pc = "append"
    /\ portfolio_values' =
          Append(portfolio_values, [Date |-> current_date, Value |-> total_value])
    /\ pc' = "for"
    /\ UNCHANGED <<portfolio, params, current_date, locals, error, last>>

Next ==
    \/ ForDate
    \/ FetchPrice
    \/ SellStep
    \/ AgentStep
    \/ ParseStep
    \/ TradeStep
    \/ ValueStep
    \/ LogStep
    \/ AppendStep

Spec == Init /\ [][Next]_vars

(***************************************************************************)
(* The ledger's methods called directly, in any order, on a fresh          *)
(* Backtester: at most MaxCalls calls.                                     *)
(***************************************************************************)
InitLedger == InitAt("api")

\* b.sell_collateral(price)
CallSell ==
    /\ pc = "api"
    /\ calls < MaxCalls
    /\ \E price \in Prices :
          /\ current_price' = price
          /\ portfolio' = sell_collateral(portfolio, price)
    /\ last' = [op |-> "sell", prev_op |-> last.op, pre |-> portfolio]
    /\ calls' = calls + 1
    /\ UNCHANGED <<portfolio_values, initial_capital, start_date, end_date, pc,
                   current_date, agent_output, action, quantity, executed_quantity,
                   total_value, error, aux>>

\* b.execute_trade(a, q, price)
CallTrade ==
    /\ pc = "api"
    /\ calls < MaxCalls
    /\ \E a \in ActionValues \cup {PyNone}, q \in QuantityValues \cup {PyNone},
          price \in Prices :
          LET r == execute_trade(portfolio, a, q, price)
          IN  /\ action' = a
              /\ quantity' = q
              /\ current_price' = price
              /\ portfolio' = r.portfolio
              /\ executed_quantity' = r.ret
              /\ error' = IF r.raised THEN "TypeError" ELSE ""
    /\ last' = [op |-> "trade", prev_op |-> last.op, pre |-> portfolio]
    /\ calls' = calls + 1
    /\ UNCHANGED <<portfolio_values, initial_capital, start_date, end_date, pc,
                   current_date, agent_output, total_value, aux>>

NextLedger ==
    \/ CallSell
    \/ CallTrade

SpecLedger == InitLedger /\ [][NextLedger]_vars

(***************************************************************************)
(* float64 values as pandas and numpy produce them: a finite number is an  *)
(* exact fraction in lowest terms, NaN and the infinities are values of    *)
(* their own (numpy divides by zero without raising).  Representation      *)
(* error of binary floats is not modelled.                                 *)
(***************************************************************************)
Abs(x) == IF x < 0 THEN -x ELSE x

NaN == [t |-> "nan"]
Inf(sign) == [t |-> "inf", sign |-> sign]

RECURSIVE GCD(_, _)
GCD(a, b) == IF b = 0 THEN a ELSE GCD(b, a % b)

Sign(x) == IF x > 0 THEN 1 ELSE IF x < 0 THEN -1 ELSE 0

\* the fraction n / d, d # 0, in lowest terms with a positive denominator
Frac(n, d) ==
    LET g == GCD(Abs(n), Abs(d))
    IN  [t |-> "frac", n |-> Sign(d) * (n \div g), d |-> Abs(d) \div g]

IsNum(x) == x.t = "frac"

FAdd(a, b) == Frac(a.n * b.d + b.n * a.d, a.d * b.d)
FSub(a, b) == Frac(a.n * b.d - b.n * a.d, a.d * b.d)
FMul(a, b) == Frac(a.n * b.n, a.d * b.d)
FLess(a, b) == a.n * b.d < b.n * a.d

\* a / b on float64 scalars of numpy: x / 0 is +-inf, 0 / 0 and anything with
\* NaN is NaN
FDiv(a, b) ==
    IF ~IsNum(a) \/ ~IsNum(b) THEN NaN
    ELSE IF b.n # 0 THEN Frac(a.n * b.d, a.d * b.n)
    ELSE IF a.n = 0 THEN NaN
    ELSE Inf(Sign(a.n))

RECURSIVE FSum(_)
FSum(xs) ==
    IF Len(xs) = 0 THEN Frac(0, 1)
    ELSE IF Len(xs) = 1 THEN xs[1]
    ELSE LET half == Len(xs) \div 2
         IN  FAdd(FSum(SubSeq(xs, 1, half)), FSum(SubSeq(xs, half + 1, Len(xs))))

\* Series.mean(): the NaN entries are skipped, NaN when nothing is left
Mean(xs) ==
    LET nums == SelectSeq(xs, IsNum)
    IN  IF nums = <<>> THEN NaN ELSE FDiv(FSum(nums), Frac(Len(nums), 1))

\* the square of Series.std() (ddof = 1): the NaN entries are skipped, NaN
\* with fewer than two numbers left
Variance(xs) ==
    LET nums == SelectSeq(xs, IsNum)
        m == Mean(xs)
        sq == [i \in 1..Len(nums) |-> FMul(FSub(nums[i], m), FSub(nums[i], m))]
    IN  IF Len(nums) < 2 THEN NaN
        ELSE FDiv(FSum(sq), Frac(Len(nums) - 1, 1))

\* Series.pct_change(): NaN first, then x[i] / x[i-1] - 1
pct_change(xs) ==
    [i \in 1..Len(xs) |->
        IF i = 1 THEN NaN
        ELSE LET q == FDiv(xs[i], xs[i - 1])
             IN  IF IsNum(q) THEN FSub(q, Frac(1, 1)) ELSE q]

(***************************************************************************)
(* Backtester.analyze_performance                                          *)
(***************************************************************************)
\* the "Portfolio Value" column of performance_df
ValueColumn(records) == [i \in 1..Len(records) |-> Frac(records[i].Value, 1)]

cummax_Global(xs) ==
    [i \in 1..Len(xs) |->
        CHOOSE m \in {xs[j] : j \in 1..Len(xs)} :
            \A j \in 1..Len(xs) : ~FLess(m, xs[j])]

\* Series.cummax()
RECURSIVE cummax(_)
cummax(xs) ==
    IF Len(xs) <= 1 THEN xs
    ELSE LET front == cummax(SubSeq(xs, 1, Len(xs) - 1))
             top == front[Len(front)]
             x == xs[Len(xs)]
         IN  Append(front, IF FLess(top, x) THEN x ELSE top)

\* Series.min() of a series of numbers
RECURSIVE FMin(_)
FMin(xs) ==
    IF Len(xs) = 1 THEN xs[1]
    ELSE LET m == FMin(Tail(xs))
         IN  IF FLess(m, Head(xs)) THEN m ELSE Head(xs)

\* (mean / std) * 252 ** 0.5 with std the square root of `variance`: NaN, an
\* infinity, or the number of sign `sign` whose square is `sq`
Sharpe(mean, variance) ==
    IF ~IsNum(mean) \/ ~IsNum(variance) THEN NaN
    ELSE IF variance.n = 0
    THEN (IF mean.n = 0 THEN NaN ELSE Inf(Sign(mean.n)))
    ELSE [t |-> "root", sign |-> Sign(mean.n),
          sq |-> FDiv(FMul(FMul(mean, mean), Frac(252, 1)), variance)]

\* Backtester.analyze_performance: raised is the exception that ends the call
\* ("" when it returns), the other fields are its locals
analyze_performance(records, p, capital) ==
    IF records = <<>>
    THEN [raised |-> "KeyError"]
    ELSE LET values == ValueColumn(records)
             daily == pct_change(values)
             rolling_max == cummax(values)
             drawdown == [i \in 1..Len(values) |->
                             FSub(FDiv(values[i], rolling_max[i]), Frac(1, 1))]
         IN  [raised |-> "",
              total_return |-> FDiv(Frac(p.portfolio_value - capital, 1),
                                    Frac(capital, 1)),
              daily_return |-> daily,
              sharpe_ratio |-> Sharpe(Mean(daily), Variance(daily)),
              max_drawdown |-> FMin(drawdown)]

\* the value histories a run hands to analyze_performance: one record per date,
\* positive values
Histories ==
    UNION {[1..n -> 1..MaxValue] : n \in 0..MaxRecords}

InitPerf ==
    /\ initial_capital \in 1..2
    /\ start_date = 1
    /\ \E h \in Histories :
          /\ end_date = Len(h)
          /\ portfolio_values = [i \in 1..Len(h) |-> [Date |-> i, Value |-> h[i]]]
          /\ current_date = Len(h)
          /\ total_value = IF h = <<>> THEN initial_capital ELSE h[Len(h)]
    /\ portfolio = SetItem(InitPortfolio(initial_capital, 5, 10),
                            "portfolio_value", total_value)
    /\ pc = "done"
    /\ current_price = 0
    /\ agent_output = PyNone
    /\ action = PyNone
    /\ quantity = PyNone
    /\ executed_quantity = PyNone
    /\ error = ""
    /\ calls = 0
    /\ last = [op |-> "none", prev_op |-> "none", pre |-> portfolio]
    /\ AuxInit

\* backtester.analyze_performance() of the main block, after the run
Analyze ==
    /\ pc = "done"
    /\ LET result == analyze_performance(portfolio_values, portfolio, initial_capital)
       IN  /\ performance' = result
           /\ error' = result.raised
           /\ pc' = IF result.raised = "" THEN "analyzed" ELSE "aborted"
    /\ UNCHANGED <<portfolio, portfolio_values, initial_capital, start_date, end_date,
                   calls, prices_df, message_content, risk_hist, current_date, locals,
                   last>>

NextPerf == Analyze

SpecPerf == InitPerf /\ [][NextPerf]_vars

(***************************************************************************)
(* risk_management_agent.  A standard deviation is the square root of a    *)
(* fraction: Root(sign, sq) is the number of that sign whose square is sq, *)
(* kept exact.                                                             *)
(***************************************************************************)
Root(sign, sq) ==
    IF sign = 0 \/ sq.n = 0 THEN Frac(0, 1)
    ELSE [t |-> "root", sign |-> sign, sq |-> sq]

NotNa(x) == x # NaN

\* Series.std() (ddof = 1)
Std(xs) ==
    LET v == Variance(xs)
    IN  IF IsNum(v) THEN Root(1, v) ELSE NaN

\* Series.rolling(window).std(): NaN until a full window of numbers is there
rolling_std(xs, window) ==
    [i \in 1..Len(xs) |->
        IF i < window THEN NaN
        ELSE LET w == SubSeq(xs, i - window + 1, i)
             IN  IF \A j \in 1..window : NotNa(w[j]) THEN Std(w) ELSE NaN]

\* Series.mean() of a column of standard deviations: the NaN entries are
\* skipped, NaN when nothing is left.  A mean of different square roots is kept
\* as the list of its terms.
StdMean(xs) ==
    LET nums == SelectSeq(xs, NotNa)
    IN  IF nums = <<>> THEN NaN
        ELSE IF \A i \in 1..Len(nums) : nums[i] = nums[1] THEN nums[1]
        ELSE [t |-> "mean", of |-> nums]

\* a / v for a fraction a and a volatility v, as numpy divides
Over(a, v) ==
    IF v = NaN THEN NaN
    ELSE IF IsNum(v) THEN FDiv(a, v)
    ELSE Root(Sign(a.n) * v.sign, FDiv(FMul(a, a), v.sq))

\* x > c for a fraction c >= 0; False for NaN
Greater(x, c) ==
    IF x = NaN THEN FALSE
    ELSE IF x.t = "inf" THEN x.sign > 0
    ELSE IF IsNum(x) THEN FLess(c, x)
    ELSE x.sign > 0 /\ FLess(FMul(c, c), x.sq)

\* x * f for a fraction f > 0
Scale(x, f) ==
    IF x = NaN \/ x.t = "inf" THEN x
    ELSE IF IsNum(x) THEN FMul(x, f)
    ELSE Root(x.sign, FMul(x.sq, FMul(f, f)))

\* "{:.2%}".format(x): the digits of a fraction >= 0 in hundredths of a percent;
\* the digits of a square root are not worked out, the string is kept as the
\* format applied to the exact number
FormatPct(x) ==
    IF x = NaN THEN PyStr("nan%")
    ELSE IF x.t = "inf" THEN PyStr(IF x.sign > 0 THEN "inf%" ELSE "-inf%")
    ELSE IF IsNum(x) THEN [t |-> "pct", hundredths |-> Round2(x.n * 10000, x.d)]
    ELSE [t |-> "pct", of |-> x]

\* a DataFrame is its columns, each a sequence over the same rows
Rows(df) == Len(df.close)

\* df[name] = col
WithColumn(df, name, col) ==
    [c \in DOMAIN df \cup {name} |-> IF c = name THEN col ELSE df[c]]

\* the entries of col at the rows in keep, in order
Filter(col, keep) ==
    LET F[i \in 0..Len(col)] ==
            IF i = 0 THEN <<>>
            ELSE IF i \in keep THEN Append(F[i - 1], col[i]) ELSE F[i - 1]
    IN  F[Len(col)]

\* df.dropna(inplace=True): the rows holding a NaN in any column are removed
dropna(df) ==
    LET keep == {i \in 1..Rows(df) : \A c \in DOMAIN df : NotNa(df[c][i])}
    IN  [c \in DOMAIN df |-> Filter(df[c], keep)]

PositionSize_NoCap(cash, max_loss_cash, volatility) ==
    Over(max_loss_cash, volatility)

\* max_position_size: max_loss_cash / volatility, cash when that is greater
PositionSize(cash, max_loss_cash, volatility) ==
    LET max_position_size == Over(max_loss_cash, volatility)
    IN  IF Greater(max_position_size, cash) THEN cash ELSE max_position_size

\* risk_management_agent on the portfolio p and the frame df: the frame as the
\* call leaves it, the volatility it computed and the message it emits
risk_management_agent(p, df) ==
    LET cash == Frac(p.cash, 1)
        max_loss == Frac(p.risk, 100)
        leverage == Frac(p.leverage, 1)
        df1 == WithColumn(df, "returns", pct_change(df.close))
        df2 == dropna(df1)
        df3 == WithColumn(df2, "volatility_24", rolling_std(df2.returns, Window))
        volatility == StdMean(df3.volatility_24)
        max_loss_cash == FMul(cash, max_loss)
        max_position_size == PositionSize(cash, max_loss_cash, volatility)
        max_position_margin == Scale(max_position_size, Frac(1, p.leverage))
        stop_loss == FormatPct(Scale(volatility, leverage))
    IN  [prices_df |-> df3,
         volatility |-> volatility,
         message_content |->
             [max_position_margin |-> max_position_margin,
              risk_metrics |-> [volatility |-> FormatPct(volatility),
                                stop_loss |-> stop_loss,
                                take_profit |-> stop_loss],
              reasoning |-> <<FormatPct(volatility), FormatPct(max_loss),
                              FormatPct(max_loss_cash)>>]]

\* closes of the price series, and the series: n bars repeating one close or
\* alternating between two, so that every full window holds the same returns
Closes == {1, 2, 3}
Cashes == {0, 1000}
RiskPercents == {5, 100}

PriceSeries ==
    {[i \in 1..n |-> Frac(IF i % 2 = 1 THEN a ELSE b, 1)] :
        n \in 0..MaxSeries, a \in Closes, b \in Closes}

InitRisk ==
    /\ initial_capital \in Cashes
    /\ \E risk \in RiskPercents, leverage \in Leverages :
          portfolio = InitPortfolio(initial_capital, risk, leverage)
    /\ start_date = 1
    /\ end_date = 1
    /\ FreshAt("risk")
    /\ \E closes \in PriceSeries : prices_df = [close |-> closes]
    /\ message_content = PyNone
    /\ risk_hist = PyNone
    /\ performance = PyNone

\* the risk_management_agent node runs on state["data"]
RiskCall ==
    /\ pc = "risk"
    /\ calls < MaxRiskCalls
    /\ LET r == risk_management_agent(portfolio, prices_df)
       IN  /\ prices_df' = r.prices_df
           /\ message_content' = r.message_content
           /\ risk_hist' = [given |-> prices_df,
                            volatility |-> r.volatility,
                            previous |-> message_content]
    /\ calls' = calls + 1
    /\ last' = [op |-> "risk", prev_op |-> last.op, pre |-> portfolio]
    /\ UNCHANGED <<portfolio, portfolio_values, initial_capital, start_date, end_date,
                   pc, current_date, locals, error, performance>>

NextRisk == RiskCall

SpecRisk == InitRisk /\ [][NextRisk]_vars

(***************************************************************************)
(* End-to-end scenario 1 of spec section 8, run through run_backtest:      *)
(* cash 100000, leverage 10, risk 0.05, three dates, the decisions         *)
(* long 1000 at price 10, hold (at any price), long 2000 at price 20.      *)
(***************************************************************************)
ScenarioDecisions ==
    <<PyDict([action |-> PyStr("long"), quantity |-> PyNum(100000)]),
      PyDict([action |-> PyStr("hold"), quantity |-> PyNum(0)]),
      PyDict([action |-> PyStr("long"), quantity |-> PyNum(200000)])>>

\* the closes the scenario allows on its n-th date
ScenarioPrices(n) ==
    IF n = 1 THEN {10} ELSE IF n = 2 THEN 1..MaxHoldPrice ELSE {20}

InitScenario ==
    /\ initial_capital = 10000000
    /\ portfolio = InitPortfolio(initial_capital, 5, 10)
    /\ start_date = 1
    /\ end_date = Len(ScenarioDecisions)
    /\ FreshAt("for")
    /\ AuxInit

\* the price fetch of run_backtest, the provider answering with the scenario's close
ScenarioFetch ==
    /\ pc = "fetch"
    /\ \E price \in ScenarioPrices(current_date) :
          LET df == get_price_API_HYPERLIQUID(<<price>>)
          IN  current_price' = df.close[Len(df.close)]
    /\ pc' = "sell"
    /\ UNCHANGED <<portfolio, portfolio_values, params, current_date, agent_output,
                   action, quantity, executed_quantity, total_value, error, last>>

\* the agent call of run_backtest, the agent answering with the scenario's decision
ScenarioAgent ==
    /\ pc = "agent"
    /\ agent_output' = ScenarioDecisions[current_date]
    /\ pc' = "parse"
    /\ UNCHANGED <<portfolio, portfolio_values, params, current_date, current_price,
                   action, quantity, executed_quantity, total_value, error, last>>

NextScenario ==
    \/ ForDate
    \/ ScenarioFetch
    \/ SellStep
    \/ ScenarioAgent
    \/ ParseStep
    \/ TradeStep
    \/ ValueStep
    \/ LogStep
    \/ AppendStep

SpecScenario == InitScenario /\ [][NextScenario]_vars

(***************************************************************************)
(* Properties.                                                             *)
(***************************************************************************)
BothOpen == portfolio.collateral_long > 0 /\ portfolio.collateral_short > 0

\* C1 (as stated): after any sequence of sell_collateral / execute_trade calls, in
\* any order, collateral_long > 0 and collateral_short > 0 never hold together.
C1_SinglePosition == ~BothOpen

\* C1 (amended): right after a sell_collateral, and after an execute_trade that
\* directly follows a sell_collateral (or is the first call on a fresh ledger),
\* collateral_long > 0 and collateral_short > 0 never hold together.
C1_SinglePositionAfterLiquidate ==
    (\/ last.op \in {"none", "sell"}
     \/ (last.op = "trade" /\ last.prev_op \in {"none", "sell"}))
    => ~BothOpen

\* a short was opened, liquidated with a gain or loss, and a long opened after it
C1_Witness ==
    /\ last.op = "trade"
    /\ last.prev_op = "sell"
    /\ portfolio.collateral_long > 0
    /\ portfolio.cash + quantity.n # initial_capital

\* C2: whenever the decision source is called, and whenever execute_trade is
\* called, in run_backtest, collateral_long and collateral_short are both zero.
C2_SettledBeforeDecision ==
    pc \in {"agent", "parse", "trade"}
    => (portfolio.collateral_long = 0 /\ portfolio.collateral_short = 0)

\* execute_trade is about to run on a date whose liquidation closed a short
C2_Witness ==
    /\ pc = "trade"
    /\ last.op = "sell"
    /\ last.pre.collateral_short > 0

\* the decision shape of spec section 3: action one of long/short/hold and a
\* number >= 0 as quantity
WellFormed(o) ==
    /\ o.t = "dict"
    /\ Get(o, "action") \in {PyStr("long"), PyStr("short"), PyStr("hold")}
    /\ Get(o, "quantity").t = "num"
    /\ Get(o, "quantity").n >= 0

\* C3 (as stated): a decision of any other shape is recovered as hold / 0 and the
\* date completes: run_backtest never ends in an exception raised by the
\* decision's shape.
C3_MalformedNeverAborts ==
    ~(pc = "aborted" /\ error = "TypeError" /\ ~WellFormed(agent_output))

\* C4: sell_collateral in run_backtest credits collateral_short * (2 * entry -
\* price) for an open short, collateral_long * price for an open long, never
\* both in one call, and leaves both collaterals zero.
C4_Liquidate ==
    pc = "agent" =>
        LET pre == last.pre
        IN  /\ ~(pre.collateral_short # 0 /\ pre.collateral_long # 0)
            /\ pre.collateral_short > 0 =>
                  portfolio.cash = pre.cash + pre.collateral_short
                                       * (2 * pre.price_collateral - current_price)
            /\ pre.collateral_long > 0 =>
                  portfolio.cash = pre.cash + pre.collateral_long * current_price
            /\ (pre.collateral_short = 0 /\ pre.collateral_long = 0) =>
                  portfolio.cash = pre.cash
            /\ portfolio.collateral_short = 0
            /\ portfolio.collateral_long = 0

\* a short opened at one price has just been liquidated at another
C4_Witness ==
    /\ pc = "agent"
    /\ last.pre.collateral_short > 0
    /\ last.pre.price_collateral # current_price
    /\ portfolio.collateral_short = 0

\* execute_trade was called with a positive numeric quantity the cash covers
Executed(side) ==
    /\ last.op = "trade"
    /\ action = PyStr(side)
    /\ quantity.t = "num"
    /\ quantity.n > 0
    /\ last.pre.cash >= quantity.n

\* what an executed trade does besides sizing the collateral
ExecutedFrame(gained, other) ==
    /\ portfolio.cash = last.pre.cash - quantity.n
    /\ portfolio.price_collateral = current_price
    /\ portfolio[other] = last.pre[other]
    /\ executed_quantity = quantity
    /\ error = ""

Gained(field) == portfolio[field] - last.pre[field]

\* C5 (as stated): an executed long adds exactly quantity / price to
\* collateral_long, takes quantity from cash and sets price_collateral to price,
\* leaving collateral_short alone; an executed short does the same to
\* collateral_short.
C5_OpenExact ==
    /\ Executed("long") =>
          /\ Gained("collateral_long") * current_price = quantity.n
          /\ ExecutedFrame("collateral_long", "collateral_short")
    /\ Executed("short") =>
          /\ Gained("collateral_short") * current_price = quantity.n
          /\ ExecutedFrame("collateral_short", "collateral_long")

\* the gain is quantity / price rounded to the nearest hundredth of a unit, an
\* exact half going to the even hundredth
NearestHundredth(gain) ==
    /\ 2 * Abs(gain * current_price - quantity.n) <= current_price
    /\ 2 * Abs(gain * current_price - quantity.n) = current_price => gain % 2 = 0

\* C5 (amended): an executed long adds round(quantity / price, 2) to
\* collateral_long, takes quantity from cash and sets price_collateral to price,
\* leaving collateral_short alone; an executed short does the same to
\* collateral_short.
C5_OpenRounded ==
    /\ Executed("long") =>
          /\ NearestHundredth(Gained("collateral_long"))
          /\ ExecutedFrame("collateral_long", "collateral_short")
    /\ Executed("short") =>
          /\ NearestHundredth(Gained("collateral_short"))
          /\ ExecutedFrame("collateral_short", "collateral_long")

\* a long was executed on top of an open long, at a price that does not divide
\* the quantity
C5_Witness ==
    /\ Executed("long")
    /\ last.pre.collateral_long > 0
    /\ Gained("collateral_long") * current_price # quantity.n

\* execute_trade was called with hold, a quantity <= 0 or more than the cash
Skipped ==
    /\ last.op = "trade"
    /\ \/ action = PyStr("hold")
       \/ (quantity.t = "num" /\ quantity.n <= 0)
       \/ (quantity.t = "num" /\ last.pre.cash < quantity.n)

C7_LiquidateIdempotent ==
    /\ (last.op = "sell" /\ last.prev_op = "sell") => portfolio = last.pre
    /\ (last.op = "sell" /\ last.pre.collateral_long = 0
                         /\ last.pre.collateral_short = 0) => portfolio = last.pre

\* a position was liquidated with a gain or loss, then liquidated again
C7_Witness ==
    /\ last.op = "sell"
    /\ last.prev_op = "sell"
    /\ portfolio.cash # initial_capital

\* the ledger without its stored valuation
Positions(p) == [k \in DOMAIN p \ {"portfolio_value"} |-> p[k]]

\* markValue of spec section 4.2
MarkValue(p, price) ==
    IF p.collateral_long > 0 THEN p.cash + p.collateral_long * price
    ELSE IF p.collateral_short > 0
    THEN p.cash + p.collateral_short * (2 * p.price_collateral - price)
    ELSE p.cash

\* C8: when a date of run_backtest ends, the record appended for it holds the
\* ledger's stored portfolio_value, which is markValue(current_price) of the
\* ledger as execute_trade left it.
C8_Valuation ==
    (pc \in {"for", "done"} /\ Len(portfolio_values) > 0) =>
        LET rec == portfolio_values[Len(portfolio_values)]
        IN  /\ rec.Value = portfolio.portfolio_value
            /\ rec.Value = MarkValue(portfolio, current_price)
            /\ rec.Date = current_date
            /\ last.op = "trade"
            /\ Positions(portfolio)
                   = Positions(execute_trade(last.pre, action, quantity,
                                             current_price).portfolio)

\* a date ended with a short open, on a ledger a previous date had changed
C8_Witness ==
    /\ pc = "for"
    /\ Len(portfolio_values) > 1
    /\ portfolio.collateral_short > 0
    /\ portfolio.portfolio_value # initial_capital

\* the records so far are those of the first n dates of the range, in order
FirstDates(n) ==
    /\ Len(portfolio_values) = n
    /\ \A i \in 1..n : portfolio_values[i].Date = start_date + i - 1

RangeLength == IF end_date >= start_date THEN end_date - start_date + 1 ELSE 0

\* C9: the value history only grows, by appending; it holds one record for each
\* date processed, in increasing date order; a run that finishes holds one
\* record for every day of [start_date, end_date]; no record is ever modified.
C9_HistoryShape ==
    /\ [](/\ pc = "for" => FirstDates(IF current_date = 0 THEN 0
                                       ELSE current_date - start_date + 1)
          /\ pc \in {"fetch", "sell", "agent", "parse", "trade", "value", "log",
                     "append", "aborted"} => FirstDates(current_date - start_date)
          /\ pc = "done" => FirstDates(RangeLength))
    /\ [][\/ portfolio_values' = portfolio_values
          \/ /\ Len(portfolio_values') = Len(portfolio_values) + 1
             /\ SubSeq(portfolio_values', 1, Len(portfolio_values)) = portfolio_values
       ]_vars

\* a run over three days has finished
C9_Witness ==
    /\ pc = "done"
    /\ Len(portfolio_values) >= 3
    /\ portfolio_values[1].Value # portfolio_values[3].Value

\* C10: when the provider has no prices for a date, the step fails before
\* sell_collateral, the decision request and execute_trade; the run stops; no
\* record is added for that date or a later one; the ledger and the value
\* history stay as the previous date left them.
C10_NoPriceDataFatal ==
    /\ []((pc = "aborted" /\ error = "AttributeError") =>
             /\ FirstDates(current_date - start_date)
             /\ last.op # "sell")
    /\ [][(pc = "fetch" /\ pc' = "aborted") =>
             /\ error' = "AttributeError"
             /\ portfolio' = portfolio
             /\ portfolio_values' = portfolio_values
             /\ last' = last]_vars
    /\ [][pc # "aborted"]_vars

\* the provider failed on a later date, with a position open from the date before
C10_Witness ==
    /\ pc = "aborted"
    /\ error = "AttributeError"
    /\ Len(portfolio_values) >= 1
    /\ portfolio.collateral_long > 0

\* the n-th date of the run has ended
EndOfDate(n) == pc \in {"for", "done"} /\ current_date = n

\* the n-th date's liquidation has just been done
Liquidated(n) == pc = "agent" /\ current_date = n

\* C11 (as stated): in scenario 1, cash is 99000 with 100 units long at the end of
\* date 1, still 99000 at the end of the hold date whatever its price, 101000
\* after date 3's liquidation of the 100 units at 20, and 99000 at the end.
C11_ScenarioAsStated ==
    /\ EndOfDate(1) => (portfolio.cash = 9900000 /\ portfolio.collateral_long = 10000)
    /\ EndOfDate(2) => portfolio.cash = 9900000
    /\ Liquidated(3) => (portfolio.cash = 10100000 /\ last.pre.collateral_long = 10000)
    /\ EndOfDate(3) => portfolio.cash = 9900000

\* C11 (amended): in scenario 1, cash is 99000 with 100 units long at the end of
\* date 1; the hold date liquidates the 100 units at its own price p2, so cash is
\* 99000 + 100 * p2 with no collateral at its end; date 3 has nothing to
\* liquidate, and opening 2000 at 20 leaves cash 97000 + 100 * p2 with 100
\* units long.
C11_ScenarioLiquidatesOnHoldDate ==
    /\ EndOfDate(1) => (portfolio.cash = 9900000 /\ portfolio.collateral_long = 10000)
    /\ EndOfDate(2) =>
          /\ portfolio.cash = 9900000 + 10000 * current_price
          /\ portfolio.collateral_long = 0
    /\ Liquidated(3) =>
          /\ portfolio = last.pre
          /\ portfolio.cash = portfolio_values[2].Value
    /\ EndOfDate(3) =>
          /\ portfolio_values[2].Value \in {9900000 + 10000 * p : p \in 1..MaxHoldPrice}
          /\ portfolio.cash = portfolio_values[2].Value - 200000
          /\ portfolio.collateral_long = 10000

\* the scenario has run to its end with a hold-date price other than 20
C11_Witness ==
    /\ pc = "done"
    /\ current_date = 3
    /\ portfolio_values[2].Value # 10100000
    /\ portfolio.cash # 9900000

\* the record of the date that has just ended
LastRecord == portfolio_values[Len(portfolio_values)]

\* a date of run_backtest has ended with an executed open on `side`
OpenedOn(side) ==
    /\ pc \in {"for", "done"}
    /\ Len(portfolio_values) > 0
    /\ Executed(side)
    /\ current_price > 0

\* C19 (as stated): when a date ends on which a long or short of quantity q
\* (0 < q <= cash) was executed at price p > 0, the value recorded for the date
\* equals the cash held right after the date's liquidation, and the collateral
\* gained is not zero.
C19_OpenConservesValue ==
    /\ OpenedOn("long") =>
          /\ LastRecord.Value = last.pre.cash
          /\ Gained("collateral_long") > 0
    /\ OpenedOn("short") =>
          /\ LastRecord.Value = last.pre.cash
          /\ Gained("collateral_short") > 0

\* the recorded value is the pre-open cash less the quantity plus the gain
\* marked at the price, within half a hundredth of a unit at that price of the
\* pre-open cash; no gain only when the quantity buys less than half a hundredth
OpenWithinRounding(gain) ==
    /\ LastRecord.Value = last.pre.cash - quantity.n + gain * current_price
    /\ 2 * Abs(LastRecord.Value - last.pre.cash) <= current_price
    /\ gain >= 0
    /\ gain = 0 => 2 * quantity.n <= current_price

\* C19 (amended): when a date ends on which a long or short of quantity q
\* (0 < q <= cash) was executed at price p > 0, the value recorded for the date
\* is the cash held right after the date's liquidation, less q, plus
\* round(q / p, 2) * p: it differs from that cash by at most p * 0.005, and the
\* collateral gained is zero only when q / p <= 0.005.
C19_OpenConservesValueRounded ==
    /\ OpenedOn("long") => OpenWithinRounding(Gained("collateral_long"))
    /\ OpenedOn("short") => OpenWithinRounding(Gained("collateral_short"))

\* a date ended with an executed short whose recorded value is not the pre-open
\* cash
C19_Witness ==
    /\ OpenedOn("short")
    /\ LastRecord.Value # last.pre.cash
    /\ Gained("collateral_short") > 0

\* C20 (as stated): the ledger's cash is never negative.
C20_CashNeverNegative == portfolio.cash >= 0

\* C20 (amended): an open never makes the cash negative, and a liquidation
\* makes it negative only when it closes a short at more than twice its entry
\* price.
C20_CashNegativeOnlyByShortLoss ==
    /\ (last.op = "trade" /\ last.pre.cash >= 0) => portfolio.cash >= 0
    /\ ( /\ last.op = "sell"
         /\ last.pre.cash >= 0
         /\ \/ last.pre.collateral_short = 0
            \/ current_price <= 2 * last.pre.price_collateral )
       => portfolio.cash >= 0

\* a short has just been liquidated at a price other than its entry price and
\* no more than twice it
C20_Witness ==
    /\ last.op = "sell"
    /\ last.pre.collateral_short > 0
    /\ last.pre.cash >= 0
    /\ current_price # last.pre.price_collateral
    /\ current_price <= 2 * last.pre.price_collateral
    /\ portfolio.cash > last.pre.cash

\* the values of the history analyze_performance was given
Values == [i \in 1..Len(portfolio_values) |-> portfolio_values[i].Value]

\* max(value_1 .. value_t)
RunningMax(t) ==
    CHOOSE m \in {Values[j] : j \in 1..t} : \A j \in 1..t : m >= Values[j]

\* value_t / max(value_1 .. value_t) - 1
DrawdownAt(t) == Frac(Values[t] - RunningMax(t), RunningMax(t))

Increasing == \A i \in 2..Len(Values) : Values[i - 1] <= Values[i]

\* C17: for a non-empty history of positive values, analyze_performance's
\* max_drawdown is the minimum over t of value_t / max(value_1..value_t) - 1;
\* it is never positive, and is 0 for a monotonically increasing history.
C17_MaxDrawdown ==
    (pc = "analyzed" /\ Len(Values) > 0 /\ \A i \in 1..Len(Values) : Values[i] > 0) =>
        LET md == performance.max_drawdown
        IN  /\ \E t \in 1..Len(Values) : md = DrawdownAt(t)
            /\ \A t \in 1..Len(Values) : ~FLess(DrawdownAt(t), md)
            /\ md.n <= 0
            /\ Increasing => md = Frac(0, 1)

\* a history that rises, falls below an earlier peak that is not the first
\* value, and recovers in part has been analysed
C17_Witness ==
    /\ pc = "analyzed"
    /\ Len(Values) >= 4
    /\ Values[1] < Values[2]
    /\ Values[3] < Values[2]
    /\ Values[3] < Values[4]
    /\ performance.max_drawdown = DrawdownAt(3)
    /\ performance.max_drawdown.n < 0

\* the daily returns of the history have standard deviation 0: they are all
\* the same
ReturnsAllEqual ==
    \A i, j \in 2..Len(Values) :
        Values[i] * Values[j - 1] = Values[j] * Values[i - 1]

\* C18 (as stated): analyze_performance fails, and reports no Sharpe ratio,
\* whenever the history has fewer than 3 records or its daily returns have
\* standard deviation 0.
C18_SharpeFails ==
    (pc \in {"analyzed", "aborted"} /\ (Len(Values) < 3 \/ ReturnsAllEqual)) =>
        /\ pc = "aborted"
        /\ error # ""
        /\ "sharpe_ratio" \notin DOMAIN performance

\* the risk agent has run; risk_hist holds the frame it was given, the
\* volatility it computed and the message of the run before
Assessed == risk_hist # PyNone

PositiveVolatility ==
    /\ risk_hist.volatility.t = "root"
    /\ risk_hist.volatility.sign > 0

\* C12: for a price series of at least 25 bars with volatility > 0, the
\* reported max_position_margin is min(cash, cash * risk / volatility) /
\* leverage, so max_position_margin * leverage never exceeds cash.
C12_RiskSizing ==
    (Assessed /\ Rows(risk_hist.given) >= Window + 1 /\ PositiveVolatility) =>
        LET cash == Frac(portfolio.cash, 1)
            risk == Frac(portfolio.risk, 100)
            leverage == Frac(portfolio.leverage, 1)
            variance == risk_hist.volatility.sq
            margin == message_content.max_position_margin
            uncapped == FDiv(FMul(cash, risk), leverage)
        IN  /\ IF FLess(variance, FMul(risk, risk))
               THEN margin = FDiv(cash, leverage)
               ELSE margin = Root(Sign(portfolio.cash),
                                  FDiv(FMul(uncapped, uncapped), variance))
            /\ ~Greater(Scale(margin, leverage), cash)

\* a series of at least 25 bars with a volatility below the risk fraction has
\* been assessed with cash to place: the size is capped at the cash
C12_Witness ==
    /\ Assessed
    /\ Rows(risk_hist.given) >= Window + 1
    /\ PositiveVolatility
    /\ portfolio.cash > 0
    /\ FLess(risk_hist.volatility.sq, Frac(portfolio.risk * portfolio.risk, 10000))
    /\ message_content.max_position_margin = Frac(portfolio.cash, portfolio.leverage)

\* C13 (as stated): for a price series of fewer than 25 bars the risk
\* assessment fails and emits no message (no max_position_margin, stop loss or
\* take profit).
C13_InsufficientHistory ==
    (Assessed /\ Rows(risk_hist.given) < Window + 1) =>
        /\ error # ""
        /\ message_content = PyNone

\* C14 (as stated): when the computed volatility is 0 the risk assessment
\* fails and emits no message: no infinite, NaN or cash-capped
\* max_position_margin comes out of a division by a zero volatility.
C14_DegenerateVolatility ==
    (Assessed /\ risk_hist.volatility = Frac(0, 1)) =>
        /\ error # ""
        /\ message_content = PyNone

\* C15 (as stated): after the risk agent returns, the price series it was
\* given has the same rows, columns and values as before the call, and the
\* portfolio is unchanged.
C15_NoSideEffects ==
    Assessed =>
        /\ prices_df = risk_hist.given
        /\ portfolio = last.pre

\* C16 (as stated): two risk assessments in a row on the same price series,
\* cash, risk fraction and leverage emit the same volatility,
\* max_position_margin, stop loss and take profit.
C16_Deterministic ==
    (Assessed /\ calls = 2) => message_content = risk_hist.previous

====
